---- MODULE Spec2Model ----
(***************************************************************************)
(* Model of the identity command handler of scuttlespace-lib               *)
(* (src/src/modules/auth/index.ts): the command grammar, the identity name *)
(* validator, the identity status resolver (checkIdentityStatus), the      *)
(* dispatcher (handle) and the three handlers it routes to.                *)
(*                                                                         *)
(* Strings are sequences of one-character strings, so that toLowerCase,    *)
(* startsWith and the regular expression are computed character by         *)
(* character.  A command is the sequence of its space-separated words.     *)
(***************************************************************************)
EXTENDS Integers, Sequences, FiniteSets

VARIABLES
  identity,       \* table identity: rows [name, enabled, domain]
  user_identity,  \* table user_identity: rows [identity_name, user_pubkey, membership_type]
  user,           \* table user: rows [sender, primary_identity_name]
  inv,            \* the invocation of handle in flight for each sender's message
  token,          \* validator harness: the token under test
  verdict         \* validator harness: "none", or the result of isValidIdentity(token)

vars == <<identity, user_identity, user, inv, token, verdict>>
store == <<identity, user_identity, user>>

-----------------------------------------------------------------------------
(* Characters and JavaScript values                                        *)

LowerAZ == {"a","b","c","d","e","f","g","h","i","j","k","l","m",
            "n","o","p","q","r","s","t","u","v","w","x","y","z"}
Digits == {"0","1","2","3","4","5","6","7","8","9"}

\* String.prototype.toLowerCase, on the upper-case letters the model uses.
LowerChar(c) ==
  CASE c = "A" -> "a"
    [] c = "D" -> "d"
    [] c = "I" -> "i"
    [] c = "Z" -> "z"
    [] OTHER -> c

toLowerCase(s) == [i \in DOMAIN s |-> LowerChar(s[i])]

\* A JavaScript value: a string, the value true, or undefined.
Str(s) == [kind |-> "string", val |-> s]
True == [kind |-> "true", val |-> <<>>]
Undefined == [kind |-> "undefined", val |-> <<>>]

\* The ToString conversion RegExp.prototype.test applies to its argument.
JsToString(v) ==
  CASE v.kind = "string" -> v.val
    [] v.kind = "true" -> <<"t","r","u","e">>
    [] OTHER -> <<"u","n","d","e","f","i","n","e","d">>

-----------------------------------------------------------------------------
(* Identity name validator: /^[a-z][a-z0-9_]+$/.test(username)             *)

\* [a-z0-9_]+$ matched from position i of s
RECURSIVE MatchTail(_, _)
MatchTail(s, i) ==
  /\ i <= Len(s)
  /\ s[i] \in LowerAZ \cup Digits \cup {"_"}
  /\ (i = Len(s) \/ MatchTail(s, i + 1))

\* mutant: the quantifier * in place of +
RegexTestStar(s) ==
  /\ Len(s) >= 1
  /\ s[1] \in LowerAZ
  /\ (Len(s) = 1 \/ MatchTail(s, 2))

\* mutant: the i flag, [a-z] also matching upper-case letters
RegexTestIgnoreCase(s) ==
  /\ Len(s) >= 1
  /\ LowerChar(s[1]) \in LowerAZ
  /\ MatchTail(toLowerCase(s), 2)

RegexTest(s) ==
  /\ Len(s) >= 1
  /\ s[1] \in LowerAZ
  /\ MatchTail(s, 2)

isValidIdentity(username) == RegexTest(JsToString(username))

-----------------------------------------------------------------------------
(* Command grammar: humanist([["id", 1], ["enable", 0], ...])              *)

kw_id == <<"i","d">>
kw_enable == <<"e","n","a","b","l","e">>
kw_disable == <<"d","i","s","a","b","l","e">>
kw_destroy == <<"d","e","s","t","r","o","y">>
kw_domain == <<"d","o","m","a","i","n">>
kw_admin == <<"a","d","m","i","n">>
kw_member == <<"m","e","m","b","e","r">>
kw_remove == <<"r","e","m","o","v","e">>

\* The option table: option name, the key it sets in the result, its arity.
options ==
  << [name |-> kw_id, key |-> "id", arity |-> 1],
     [name |-> kw_enable, key |-> "enable", arity |-> 0],
     [name |-> kw_disable, key |-> "disable", arity |-> 0],
     [name |-> kw_destroy, key |-> "destroy", arity |-> 0],
     [name |-> kw_domain, key |-> "domain", arity |-> 1],
     [name |-> kw_admin, key |-> "admin", arity |-> 1],
     [name |-> kw_member, key |-> "member", arity |-> 1],
     [name |-> kw_remove, key |-> "remove", arity |-> 1] >>

NoArgs == [k \in {options[i].key : i \in DOMAIN options} |-> Undefined]

\* Option names are matched case-sensitively; a word that is no option name
\* sets no key, and an option of arity 1 with no word after it sets no key.
RECURSIVE ParseFrom(_, _, _)
ParseFrom(words, i, args) ==
  IF i > Len(words) THEN args
  ELSE LET hit == {j \in DOMAIN options : options[j].name = words[i]}
       IN IF hit = {} THEN ParseFrom(words, i + 1, args)
          ELSE LET o == options[CHOOSE j \in hit : TRUE]
               IN IF o.arity = 0
                  THEN ParseFrom(words, i + 1, [args EXCEPT ![o.key] = True])
                  ELSE IF i + 1 <= Len(words)
                       THEN ParseFrom(words, i + 2,
                                      [args EXCEPT ![o.key] = Str(words[i + 1])])
                       ELSE ParseFrom(words, i + 1, args)

parser(command) == ParseFrom(command, 1, NoArgs)

\* mutant: the prefix test applied to the command as typed
startsWithIdAsTyped(command) ==
  /\ Len(command) >= 2
  /\ command[1] = kw_id

\* lcaseCommand.startsWith("id "): the first word lower-cases to "id" and a
\* space, hence another word, follows it.
startsWithId(command) ==
  /\ Len(command) >= 2
  /\ toLowerCase(command[1]) = kw_id

-----------------------------------------------------------------------------
(* The universe of the model                                               *)

MaxLen == 3

s1 == <<"s","1">>
s2 == <<"s","2">>
Senders == {s1, s2}

n_ab == <<"a","b">>
n_c1 == <<"c","_","1">>
n_Ab == <<"A","b">>
ValidNames == {n_ab, n_c1}
NameWords == ValidNames \cup {n_Ab}

d1 == <<"x",".","o">>
NullName == <<>>      \* SQL NULL in a name column
NullDomain == <<>>    \* SQL NULL in the domain column

kw_ID == <<"I","D">>
kw_Id == <<"I","d">>
kw_hi == <<"h","i">>

\* The commands the transport delivers: at most one modifier each, and the
\* second name is only ever claimed.  "ID ab" has no word the case-sensitive
\* grammar takes for the option id, "Id id" has the option without its value,
\* "hi ab" and "id" lack the prefix.
Commands ==
  {<<kw_id, n>> : n \in NameWords}
  \cup {<<kw_id, n_ab, m>> : m \in {kw_enable, kw_disable, kw_destroy}}
  \cup {<<kw_id, n_ab, m, x>> : m \in {kw_admin, kw_member, kw_remove}, x \in Senders}
  \cup {<<kw_id, n_ab, kw_domain, d1>>}
  \cup {<<kw_ID, n_ab>>, <<kw_Id, kw_id>>, <<kw_hi, n_ab>>, <<kw_id>>}

\* The verb and the name of a command: the words handle reads before its
\* first await.
HeadOf(command) == SubSeq(command, 1, IF Len(command) < 2 THEN Len(command) ELSE 2)
Heads == {HeadOf(c) : c \in Commands}

-----------------------------------------------------------------------------
(* Identity status resolver: checkIdentityStatus                           *)

NoRow ==
  [found |-> FALSE, enabled |-> FALSE, identityName |-> NullName,
   membershipType |-> "", primaryIdentityName |-> NullName, sender |-> <<>>]

\* mutant: the user table joined without its ON condition
JoinRowsAnyUser(idt, uit, ut, identityName) ==
  {[found |-> TRUE, enabled |-> x[2].enabled, identityName |-> x[2].name,
    membershipType |-> x[1].membership_type,
    primaryIdentityName |-> x[3].primary_identity_name, sender |-> x[3].sender] :
     x \in {y \in uit \X idt \X ut :
              /\ y[1].identity_name = y[2].name
              /\ identityName.kind = "string"
              /\ y[1].identity_name = identityName.val}}

\* The rows of: FROM user_identity ui JOIN identity i ON ui.identity_name = i.name
\* JOIN user u ON ui.user_pubkey = u.sender WHERE identity_name = $identityName
JoinRows(idt, uit, ut, identityName) ==
  {[found |-> TRUE, enabled |-> x[2].enabled, identityName |-> x[2].name,
    membershipType |-> x[1].membership_type,
    primaryIdentityName |-> x[3].primary_identity_name, sender |-> x[3].sender] :
     x \in {y \in uit \X idt \X ut :
              /\ y[1].identity_name = y[2].name
              /\ y[1].user_pubkey = y[3].sender
              /\ identityName.kind = "string"
              /\ y[1].identity_name = identityName.val}}

\* Statement.get(): the first row of the result, or undefined when it has no
\* row.  The query has no ORDER BY, so any row of the result can be the first.
Get(rows) == IF rows = {} THEN {NoRow} ELSE rows

Available ==
  [status |-> "AVAILABLE", enabled |-> FALSE, identityName |-> NullName,
   membershipType |-> "", primaryIdentityName |-> NullName, sender |-> <<>>]
Taken ==
  [status |-> "TAKEN", enabled |-> FALSE, identityName |-> NullName,
   membershipType |-> "", primaryIdentityName |-> NullName, sender |-> <<>>]

\* mutant: the comparison of the row's sender with the caller left out
statusOfRowNoSenderCheck(row, sender) ==
  IF ~row.found THEN Available
  ELSE [status |-> IF row.membershipType = "ADMIN" THEN "ADMIN" ELSE "MEMBER",
        enabled |-> row.enabled,
        identityName |-> row.identityName,
        membershipType |-> row.membershipType,
        primaryIdentityName |-> row.primaryIdentityName,
        sender |-> sender]

\* mutant: every member reported with status ADMIN
statusOfRowAlwaysAdmin(row, sender) ==
  IF ~row.found THEN Available
  ELSE IF row.sender = sender
       THEN [status |-> "ADMIN",
             enabled |-> row.enabled,
             identityName |-> row.identityName,
             membershipType |-> row.membershipType,
             primaryIdentityName |-> row.primaryIdentityName,
             sender |-> sender]
       ELSE Taken

\* mutant: MEMBER only for the membership type MEMBER, ADMIN for any other
statusOfRowAdminByDefault(row, sender) ==
  IF ~row.found THEN Available
  ELSE IF row.sender = sender
       THEN [status |-> IF row.membershipType = "MEMBER" THEN "MEMBER" ELSE "ADMIN",
             enabled |-> row.enabled,
             identityName |-> row.identityName,
             membershipType |-> row.membershipType,
             primaryIdentityName |-> row.primaryIdentityName,
             sender |-> sender]
       ELSE Taken

\* Lines 121-138: the classification of the row the query returned.
statusOfRow(row, sender) ==
  IF ~row.found THEN Available
  ELSE IF row.sender = sender
       THEN [status |-> IF row.membershipType = "ADMIN" THEN "ADMIN" ELSE "MEMBER",
             enabled |-> row.enabled,
             identityName |-> row.identityName,
             membershipType |-> row.membershipType,
             primaryIdentityName |-> row.primaryIdentityName,
             sender |-> sender]
       ELSE Taken

\* Every result checkIdentityStatus(identityName, sender) can return on the
\* given tables.
checkIdentityStatus(idt, uit, ut, identityName, sender) ==
  {statusOfRow(row, sender) : row \in Get(JoinRows(idt, uit, ut, identityName))}

\* mutant: the TAKEN branch left out of the routing
routeWithoutTaken(identityStatus) ==
  IF identityStatus.status = "AVAILABLE" THEN "createIdentity"
  ELSE "modifyIdentity"

\* Lines 72-76: the handler the resolved status is routed to.
route(identityStatus) ==
  IF identityStatus.status = "AVAILABLE" THEN "createIdentity"
  ELSE IF identityStatus.status = "TAKEN" THEN "alreadyTaken"
       ELSE "modifyIdentity"

-----------------------------------------------------------------------------
(* Lifecycle and role engine: createIdentity, alreadyTaken, modifyIdentity *)
(* Each runs as one atomic unit on the tables S and yields the new tables  *)
(* with the outcome reported to the caller.                                *)

Tables(idt, uit, ut) == [identity |-> idt, user_identity |-> uit, user |-> ut]
Result(S, outcome) ==
  [identity |-> S.identity, user_identity |-> S.user_identity, user |-> S.user,
   outcome |-> outcome]

\* The user rows after making sure a row for sender x exists.
WithUser(ut, x) ==
  IF \E u \in ut : u.sender = x THEN ut
  ELSE ut \cup {[sender |-> x, primary_identity_name |-> NullName]}

\* mutant: the primary identity of x overwritten even where it is set
WithPrimaryOverwritten(ut, x, n) ==
  {IF u.sender = x THEN [u EXCEPT !.primary_identity_name = n] ELSE u :
     u \in WithUser(ut, x)}

\* The user rows after setting x's primary identity to n where it is unset.
WithPrimary(ut, x, n) ==
  {IF u.sender = x /\ u.primary_identity_name = NullName
     THEN [u EXCEPT !.primary_identity_name = n] ELSE u : u \in WithUser(ut, x)}

\* mutant: creation without the uniqueness constraint on identity.name
createIdentityNoUnique(S, identityName, sender) ==
  IF identityName.kind # "string" THEN Result(S, "threw")
  ELSE LET n == identityName.val
       IN [identity |-> S.identity \cup
                          {[name |-> n, enabled |-> TRUE, domain |-> NullDomain]},
           user_identity |-> {m \in S.user_identity : m.identity_name # n} \cup
              {[identity_name |-> n, user_pubkey |-> sender,
                membership_type |-> "ADMIN"]},
           user |-> WithPrimary(S.user, sender, n),
           outcome |-> "created"]

createIdentity(S, identityName, sender) ==
  IF identityName.kind # "string" THEN Result(S, "threw")
  ELSE LET n == identityName.val
       IN IF \E i \in S.identity : i.name = n
          THEN Result(S, "alreadyTaken")
          ELSE [identity |-> S.identity \cup
                               {[name |-> n, enabled |-> TRUE, domain |-> NullDomain]},
                user_identity |-> S.user_identity \cup
                   {[identity_name |-> n, user_pubkey |-> sender,
                     membership_type |-> "ADMIN"]},
                user |-> WithPrimary(S.user, sender, n),
                outcome |-> "created"]

alreadyTaken(S, identityName, sender) == Result(S, "alreadyTaken")

Modifiers == {"member", "admin", "remove", "domain", "enable", "disable", "destroy"}
ModifiersOf(args) == {k \in Modifiers : args[k] # Undefined}

MembersOf(uit, n) == {m \in uit : m.identity_name = n}
AdminsOf(uit, n) == {m \in MembersOf(uit, n) : m.membership_type = "ADMIN"}
RowsOf(uit, n, x) == {m \in MembersOf(uit, n) : m.user_pubkey = x}

\* member X: grant MEMBER to X; a demotion of the last ADMIN is rejected.
grantMember(S, n, x) ==
  LET cur == RowsOf(S.user_identity, n, x)
  IN IF cur # {} /\ AdminsOf(S.user_identity, n) \subseteq cur
          /\ AdminsOf(S.user_identity, n) # {}
     THEN Result(S, "invariantViolation")
     ELSE [identity |-> S.identity,
           user_identity |-> (S.user_identity \ cur) \cup
              {[identity_name |-> n, user_pubkey |-> x, membership_type |-> "MEMBER"]},
           user |-> WithUser(S.user, x),
           outcome |-> "memberGranted"]

\* admin X: grant ADMIN to X, or promote X.
grantAdmin(S, n, x) ==
  [identity |-> S.identity,
   user_identity |-> (S.user_identity \ RowsOf(S.user_identity, n, x)) \cup
      {[identity_name |-> n, user_pubkey |-> x, membership_type |-> "ADMIN"]},
   user |-> WithUser(S.user, x),
   outcome |-> "adminGranted"]

\* mutant: remove without the check for the last ADMIN
removeMemberUnchecked(S, n, x) ==
  LET cur == RowsOf(S.user_identity, n, x)
  IN IF cur = {} THEN Result(S, "rejected")
     ELSE [identity |-> S.identity, user_identity |-> S.user_identity \ cur,
           user |-> S.user, outcome |-> "removed"]

\* remove X: delete X's membership; rejected when X is the last ADMIN.
removeMember(S, n, x) ==
  LET cur == RowsOf(S.user_identity, n, x)
  IN IF cur = {} THEN Result(S, "rejected")
     ELSE IF AdminsOf(S.user_identity, n) \subseteq cur
          THEN Result(S, "invariantViolation")
          ELSE [identity |-> S.identity, user_identity |-> S.user_identity \ cur,
                user |-> S.user, outcome |-> "removed"]

setDomain(S, n, d) ==
  [identity |-> {IF i.name = n THEN [i EXCEPT !.domain = d] ELSE i : i \in S.identity},
   user_identity |-> S.user_identity, user |-> S.user, outcome |-> "domainSet"]

setEnabled(S, n, e) ==
  [identity |-> {IF i.name = n THEN [i EXCEPT !.enabled = e] ELSE i : i \in S.identity},
   user_identity |-> S.user_identity, user |-> S.user,
   outcome |-> IF e THEN "enabled" ELSE "disabled"]

\* mutant: destroy deletes the identity row and leaves its memberships
destroyIdentityRowOnly(S, n) ==
  IF \E i \in S.identity : i.name = n /\ i.enabled
  THEN Result(S, "invariantViolation")
  ELSE [identity |-> {i \in S.identity : i.name # n},
        user_identity |-> S.user_identity,
        user |-> S.user, outcome |-> "destroyed"]

\* mutant: destroy without the check that the identity is disabled
destroyUnchecked(S, n) ==
  [identity |-> {i \in S.identity : i.name # n},
   user_identity |-> {m \in S.user_identity : m.identity_name # n},
   user |-> S.user, outcome |-> "destroyed"]

\* destroy: delete the identity and its memberships, only while disabled.
destroy(S, n) ==
  IF \E i \in S.identity : i.name = n /\ i.enabled
  THEN Result(S, "invariantViolation")
  ELSE [identity |-> {i \in S.identity : i.name # n},
        user_identity |-> {m \in S.user_identity : m.identity_name # n},
        user |-> S.user, outcome |-> "destroyed"]

\* Dispatch on the resolved status (identityStatus.status is ADMIN or MEMBER);
\* role grants and removals come before domain, enable/disable and destroy.
modifyIdentity(S, identityStatus, args) ==
  LET n == identityStatus.identityName
      mods == ModifiersOf(args)
  IN IF mods = {} THEN Result(S, "ack")
     ELSE IF identityStatus.status # "ADMIN" THEN Result(S, "notAuthorized")
     ELSE IF ~ \E i \in S.identity : i.name = n THEN Result(S, "rejected")
     ELSE IF "member" \in mods THEN grantMember(S, n, args.member.val)
     ELSE IF "admin" \in mods THEN grantAdmin(S, n, args.admin.val)
     ELSE IF "remove" \in mods THEN removeMember(S, n, args.remove.val)
     ELSE IF "domain" \in mods THEN setDomain(S, n, args.domain.val)
     ELSE IF "enable" \in mods THEN setEnabled(S, n, TRUE)
     ELSE IF "disable" \in mods THEN setEnabled(S, n, FALSE)
     ELSE destroy(S, n)

-----------------------------------------------------------------------------
(* The dispatcher: handle(command, message, msgSource)                     *)

\* parsed tells whether line 64 ran, handler which of the three handlers of
\* lines 72-76 was called, reads how many queries were issued.
Idle ==
  [pc |-> "idle", command |-> <<>>, sender |-> <<>>, status |-> Available,
   outcome |-> "", reads |-> 0, parsed |-> FALSE, handler |-> ""]

Init ==
  /\ identity = {}
  /\ user_identity = {}
  /\ user = {}
  /\ inv = [h \in Senders |-> Idle]
  /\ token = Undefined
  /\ verdict = "none"

\* Lines 62-67: the prefix test, the parse and the validation of args.id, up
\* to the first await.  An invocation that fails either test returns undefined.
\* Only the verb and the name are read here; the words after them are first
\* read by modifyIdentity, and the model draws them there.
Handle(h) ==
  /\ inv[h].pc \in {"idle", "done"}
  /\ \E command \in Heads :
       inv' = [inv EXCEPT ![h] =
                 IF startsWithId(command) /\ isValidIdentity(parser(command).id)
                 THEN [pc |-> "resolve", command |-> command, sender |-> h,
                       status |-> Available, outcome |-> "", reads |-> 0,
                       parsed |-> TRUE, handler |-> ""]
                 ELSE [pc |-> "done", command |-> command, sender |-> h,
                       status |-> Available, outcome |-> "unhandled", reads |-> 0,
                       parsed |-> startsWithId(command), handler |-> ""]]
  /\ UNCHANGED <<identity, user_identity, user, token, verdict>>

\* mutant: the resolver registers the caller in the user table as it reads
CheckIdentityStatusRegisters(h) ==
  /\ inv[h].pc = "resolve"
  /\ \E st \in checkIdentityStatus(identity, user_identity, user,
                                   parser(inv[h].command).id, inv[h].sender) :
       inv' = [inv EXCEPT ![h].pc = "apply", ![h].status = st, ![h].reads = 1]
  /\ user' = WithUser(user, inv[h].sender)
  /\ UNCHANGED <<identity, user_identity, token, verdict>>

\* Lines 68-71 and 100-139: the query and the classification of its row.
CheckIdentityStatus(h) ==
  /\ inv[h].pc = "resolve"
  /\ \E st \in checkIdentityStatus(identity, user_identity, user,
                                   parser(inv[h].command).id, inv[h].sender) :
       inv' = [inv EXCEPT ![h].pc = "apply", ![h].status = st, ![h].reads = 1]
  /\ UNCHANGED <<identity, user_identity, user, token, verdict>>

\* The query with an undefined bind parameter is refused by the store driver.
CheckIdentityStatusThrows(h) ==
  /\ inv[h].pc = "resolve"
  /\ parser(inv[h].command).id = Undefined
  /\ inv' = [inv EXCEPT ![h].pc = "done", ![h].outcome = "threw", ![h].reads = 1]
  /\ UNCHANGED <<identity, user_identity, user, token, verdict>>

\* The handler's unit of work commits and handle returns its response; of the
\* resolved status only the discriminator is kept with the response.
Apply(h, handler, r) ==
  /\ identity' = r.identity
  /\ user_identity' = r.user_identity
  /\ user' = r.user
  /\ inv' = [inv EXCEPT ![h].pc = "done", ![h].outcome = r.outcome,
                          ![h].handler = handler,
                          ![h].status = [Available EXCEPT !.status = inv[h].status.status]]
  /\ UNCHANGED <<token, verdict>>

\* Line 73
CreateIdentity(h) ==
  /\ inv[h].pc = "apply"
  /\ route(inv[h].status) = "createIdentity"
  /\ Apply(h, "createIdentity",
           createIdentity(Tables(identity, user_identity, user),
                          parser(inv[h].command).id, inv[h].sender))

\* Line 75
AlreadyTaken(h) ==
  /\ inv[h].pc = "apply"
  /\ route(inv[h].status) = "alreadyTaken"
  /\ Apply(h, "alreadyTaken",
           alreadyTaken(Tables(identity, user_identity, user),
                        parser(inv[h].command).id, inv[h].sender))

\* Line 76
ModifyIdentity(h) ==
  /\ inv[h].pc = "apply"
  /\ route(inv[h].status) = "modifyIdentity"
  /\ \E command \in {c \in Commands : HeadOf(c) = inv[h].command} :
       Apply(h, "modifyIdentity",
             modifyIdentity(Tables(identity, user_identity, user),
                            inv[h].status, parser(command)))

Next ==
  \E h \in Senders :
    \/ Handle(h)
    \/ CheckIdentityStatus(h)
    \/ CheckIdentityStatusThrows(h)
    \/ CreateIdentity(h)
    \/ AlreadyTaken(h)
    \/ ModifyIdentity(h)

Spec == Init /\ [][Next]_vars

-----------------------------------------------------------------------------
(* Harness of the validator: isValidIdentity applied to every token over a *)
(* bounded alphabet and length.                                            *)

Alphabet == {"a", "z", "A", "0", "_", "-"}
Tokens == UNION {[1 .. k -> Alphabet] : k \in 0 .. MaxLen}

InitV ==
  /\ identity = {}
  /\ user_identity = {}
  /\ user = {}
  /\ inv = [h \in Senders |-> Idle]
  /\ token \in {Str(t) : t \in Tokens}
  /\ verdict = "none"

Validate ==
  /\ verdict = "none"
  /\ verdict' = IF isValidIdentity(token) THEN "true" ELSE "false"
  /\ UNCHANGED <<identity, user_identity, user, inv, token>>

NextV == Validate

SpecV == InitV /\ [][NextV]_vars

-----------------------------------------------------------------------------
(* Harness of the resolver: checkIdentityStatus applied to every content   *)
(* of the three tables, over one name, that keeps the keys unique and the  *)
(* foreign keys of user_identity valid.                                    *)

IdentityTables ==
  {{}} \cup {{[name |-> n_ab, enabled |-> e, domain |-> NullDomain]} : e \in BOOLEAN}
UserTables ==
  {{[sender |-> x, primary_identity_name |-> p[x]] : x \in ss} :
     ss \in SUBSET Senders, p \in [Senders -> {NullName, n_ab}]}
\* membership_type is a free string column (membershipType: string, line 90);
\* GUEST stands for a value that is neither ADMIN nor MEMBER.
MembershipTypes == {"ADMIN", "MEMBER", "GUEST"}
MembershipTables ==
  {{[identity_name |-> n_ab, user_pubkey |-> x, membership_type |-> t[x]] : x \in ss} :
     ss \in SUBSET Senders, t \in [Senders -> MembershipTypes]}

InitR ==
  /\ identity \in IdentityTables
  /\ user \in UserTables
  /\ user_identity \in MembershipTables
  /\ \A m \in user_identity :
       /\ \E i \in identity : i.name = m.identity_name
       /\ \E u \in user : u.sender = m.user_pubkey
  /\ inv = [h \in Senders |->
              [pc |-> "resolve", command |-> <<kw_id, n_ab>>, sender |-> h,
               status |-> Available, outcome |-> "", reads |-> 0,
               parsed |-> TRUE, handler |-> ""]]
  /\ token = Undefined
  /\ verdict = "none"

NextR == \E h \in Senders : CheckIdentityStatus(h)

SpecR == InitR /\ [][NextR]_vars

-----------------------------------------------------------------------------
(* Properties                                                              *)

Uppers == {"A", "D", "I", "Z"}

\* The name pattern in words: a lower-case letter, then one or more
\* lower-case letters, digits or underscores.
NamePattern(t) ==
  /\ Len(t) >= 2
  /\ t[1] \in LowerAZ
  /\ \A i \in 2 .. Len(t) : t[i] \in LowerAZ \cup Digits \cup {"_"}

\* A token that violates a clause of the pattern.
ViolatesPattern(t) ==
  \/ \E i \in DOMAIN t : t[i] \in Uppers
  \/ Len(t) >= 1 /\ t[1] \in Digits \cup {"_"}
  \/ Len(t) < 2
  \/ \E i \in DOMAIN t : t[i] \notin LowerAZ \cup Digits \cup {"_"} \cup Uppers

IdOf(h) == parser(inv[h].command).id
HasName(idt, n) == \E i \in idt : i.name = n

\* C9: isValidIdentity answers true exactly for the tokens that start with a
\* lower-case letter and continue with one or more lower-case letters, digits
\* or underscores, and false for every token with an upper-case letter, a
\* leading digit or underscore, a length below 2 or any other character.
C9_ValidatorMatchesPattern ==
  (verdict # "none" /\ token.kind = "string") =>
     /\ (verdict = "true") <=> NamePattern(token.val)
     /\ ViolatesPattern(token.val) => verdict = "false"

C9_Witness ==
  /\ verdict = "true"
  /\ token = Str(<<"a", "0", "_">>)

\* C8: an invocation whose parsed identity token fails the name pattern
\* returns unhandled in its first step, with no read and no write of the
\* store, and every identity name in the store satisfies the pattern.
C8_InvalidNameShortCircuits ==
  /\ [][\A h \in Senders :
          (inv'[h] # inv[h] /\ IdOf(h)'.kind = "string" /\ ~NamePattern(IdOf(h)'.val)) =>
             /\ inv'[h].pc = "done"
             /\ inv'[h].outcome = "unhandled"
             /\ inv'[h].reads = 0
             /\ store' = store]_vars
  /\ [](/\ \A i \in identity : NamePattern(i.name)
        /\ \A m \in user_identity : NamePattern(m.identity_name))

C8_Witness ==
  \E h \in Senders :
    /\ inv[h].pc = "done"
    /\ inv[h].command = <<kw_id, n_Ab>>
    /\ inv[h].outcome = "unhandled"
    /\ HasName(identity, n_ab)

\* C7: a command with the "id " prefix that the grammar cannot parse into an
\* id value returns unhandled without throwing, without a read of the store
\* and without reaching a handler.
C7_UnparsedIsUnhandled ==
  \A h \in Senders :
    (inv[h].pc # "idle" /\ startsWithId(inv[h].command) /\ IdOf(h) = Undefined) =>
       /\ inv[h].pc = "done"
       /\ inv[h].outcome = "unhandled"
       /\ inv[h].reads = 0

Resolve(idt, uit, ut, n, x) == checkIdentityStatus(idt, uit, ut, Str(n), x)
IsAdminRow(uit, n, x) ==
  [identity_name |-> n, user_pubkey |-> x, membership_type |-> "ADMIN"] \in uit

\* C1: of two invocations that both resolved AVAILABLE for the same name, the
\* one whose creation step finds no identity row of that name creates it and
\* is afterwards the only member, resolving to ADMIN while every other sender
\* resolves to TAKEN; the one that finds the row gets the already-taken
\* outcome and changes nothing.
C1_OneCreationWins ==
  [][\A h \in Senders :
       (/\ inv[h].pc = "apply"
        /\ inv[h].status.status = "AVAILABLE"
        /\ inv'[h].pc = "done"
        /\ IdOf(h).kind = "string") =>
          LET n == IdOf(h).val
          IN IF HasName(identity, n)
             THEN inv'[h].outcome = "alreadyTaken" /\ store' = store
             ELSE /\ inv'[h].outcome = "created"
                  /\ Cardinality({i \in identity' : i.name = n}) = 1
                  /\ MembersOf(user_identity', n) =
                       {[identity_name |-> n, user_pubkey |-> h,
                         membership_type |-> "ADMIN"]}
                  /\ \A x \in Resolve(identity', user_identity', user', n, h) :
                       x.status = "ADMIN"
                  /\ \A o \in Senders \ {h} :
                       Resolve(identity', user_identity', user', n, o) = {Taken}]_vars

C1_Witness ==
  \E a, b \in Senders :
    /\ a # b
    /\ inv[a].pc = "done" /\ inv[b].pc = "done"
    /\ inv[a].command = inv[b].command
    /\ inv[a].status.status = "AVAILABLE" /\ inv[a].outcome = "created"
    /\ inv[b].status.status = "AVAILABLE" /\ inv[b].outcome = "alreadyTaken"
    /\ Resolve(identity, user_identity, user, IdOf(a).val, b) = {Taken}

\* C2: when an identity has membership rows of several senders, a caller
\* that holds one of them resolves to EXISTING, never to TAKEN, and a caller
\* that holds none resolves to TAKEN.
C2_OwnRowSelected ==
  \A n \in ValidNames, x \in Senders :
    LET rows == JoinRows(identity, user_identity, user, Str(n))
    IN Cardinality({r.sender : r \in rows}) >= 2 =>
         IF \E r \in rows : r.sender = x
         THEN \A st \in Resolve(identity, user_identity, user, n, x) :
                st.status \in {"ADMIN", "MEMBER"}
         ELSE Resolve(identity, user_identity, user, n, x) = {Taken}

\* C3: an identity with a membership row always has an ADMIN row, and a
\* modification rejected as an invariant violation leaves the store unchanged.
C3_AtLeastOneAdmin ==
  /\ [](\A n \in ValidNames :
          MembersOf(user_identity, n) # {} => AdminsOf(user_identity, n) # {})
  /\ [][\A h \in Senders :
          (inv[h].pc = "apply" /\ inv'[h].outcome = "invariantViolation") =>
             store' = store]_vars

\* the first admin a granted ADMIN to b, and b's removal of a was accepted
C3_Witness ==
  \E a, b \in Senders :
    /\ a # b
    /\ inv[a].pc = "done" /\ inv[a].outcome = "adminGranted"
    /\ inv[b].pc = "done" /\ inv[b].outcome = "removed"
    /\ RowsOf(user_identity, n_ab, a) = {}
    /\ AdminsOf(user_identity, n_ab) =
         {[identity_name |-> n_ab, user_pubkey |-> b, membership_type |-> "ADMIN"]}

\* C4: for a caller whose own membership row has type MEMBER, every command
\* with a modifier is rejected as not authorized, and no command of the
\* caller changes the identity, its memberships or the users.
C4_MemberCannotModify ==
  /\ [](\A h \in Senders :
          (inv[h].pc = "apply" /\ inv[h].status.membershipType = "MEMBER") =>
             \A c \in {k \in Commands : HeadOf(k) = inv[h].command} :
               LET S == Tables(identity, user_identity, user)
                   r == modifyIdentity(S, inv[h].status, parser(c))
               IN /\ r.identity = identity
                  /\ r.user_identity = user_identity
                  /\ r.user = user
                  /\ ModifiersOf(parser(c)) # {} => r.outcome = "notAuthorized")
  /\ [][\A h \in Senders :
          (/\ inv[h].pc = "apply"
           /\ inv[h].status.membershipType = "MEMBER"
           /\ inv'[h].pc = "done") =>
             /\ store' = store
             /\ inv'[h].outcome \in {"ack", "notAuthorized"}]_vars

C4_Witness ==
  \E h \in Senders :
    /\ inv[h].pc = "done"
    /\ inv[h].status.status = "MEMBER"
    /\ inv[h].outcome = "notAuthorized"
    /\ \E m \in user_identity : m.user_pubkey = h /\ m.membership_type = "MEMBER"

\* C5: an identity row disappears only in the step of an ADMIN's destroy on
\* an identity that is disabled, and that step removes every membership of
\* the identity, so that the name resolves to AVAILABLE for every sender.
C5_DestroyOnlyWhenDisabled ==
  [][\A n \in ValidNames :
       (HasName(identity, n) /\ ~HasName(identity', n)) =>
          /\ \A i \in identity : i.name = n => ~i.enabled
          /\ \E h \in Senders :
               /\ inv[h].pc = "apply"
               /\ inv[h].status.status = "ADMIN"
               /\ inv'[h].outcome = "destroyed"
          /\ MembersOf(user_identity', n) = {}
          /\ \A x \in Senders :
               Resolve(identity', user_identity', user', n, x) = {Available}]_vars

C5_Witness ==
  \E h \in Senders :
    /\ inv[h].pc = "done"
    /\ inv[h].outcome = "destroyed"
    /\ ~HasName(identity, n_ab)
    /\ \A x \in Senders : Resolve(identity, user_identity, user, n_ab, x) = {Available}

\* h resolves to ADMIN on n and every sender without a membership to TAKEN
AdminView(idt, uit, ut, n, h) ==
  /\ \A st \in Resolve(idt, uit, ut, n, h) : st.status = "ADMIN"
  /\ \A o \in Senders :
       RowsOf(uit, n, o) = {} => Resolve(idt, uit, ut, n, o) = {Taken}

\* C6: the creation of a name by h follows an AVAILABLE resolution and makes
\* h resolve to ADMIN and every sender without a membership to TAKEN, and
\* this stays so for as long as the identity exists with h's ADMIN row.
C6_CreatorKeepsAdmin ==
  [][\A h \in Senders, n \in ValidNames :
       /\ (/\ inv[h].pc = "apply"
           /\ IdOf(h) = Str(n)
           /\ inv'[h].outcome = "created") =>
             /\ inv[h].status.status = "AVAILABLE"
             /\ AdminView(identity', user_identity', user', n, h)
       /\ (/\ AdminView(identity, user_identity, user, n, h)
           /\ IsAdminRow(user_identity, n, h)
           /\ IsAdminRow(user_identity', n, h)
           /\ HasName(identity', n)) =>
             AdminView(identity', user_identity', user', n, h)]_vars

\* C10: the resolver answers AVAILABLE exactly when the store has no identity
\* row of the name, so that a name with an identity row is not routed to
\* creation.
C10_AvailableIffNoIdentity ==
  \A h \in Senders :
    (inv[h].pc = "apply" /\ IdOf(h).kind = "string") =>
       /\ (inv[h].status.status = "AVAILABLE") <=> ~HasName(identity, IdOf(h).val)
       /\ HasName(identity, IdOf(h).val) => route(inv[h].status) # "createIdentity"

\* C11: in every reachable state, whatever the order and the interleaving of
\* the id commands handled so far, no two rows of the identity table carry the
\* same name.
C11_UniqueIdentityNames ==
  \A i, j \in identity : i.name = j.name => i = j

\* A creation that resolved AVAILABLE was refused because the name had been
\* created meanwhile, and the row it met differs from the one it would insert.
C11_Witness ==
  \E h \in Senders :
    /\ inv[h].pc = "done"
    /\ inv[h].status.status = "AVAILABLE"
    /\ inv[h].outcome = "alreadyTaken"
    /\ IdOf(h).kind = "string"
    /\ \E i \in identity : i.name = IdOf(h).val /\ ~i.enabled

\* C12: a creation of name n by sender h adds exactly the identity row of n,
\* enabled, and exactly the membership row (n, h, ADMIN), which is then the
\* only membership of n; h's user row gets n as primary identity when it had
\* none (or did not exist) and keeps its primary identity otherwise; every
\* other identity, membership and user row is as before.
C12_CreationFrame ==
  [][\A h \in Senders :
       (/\ inv[h].pc = "apply"
        /\ inv'[h].outcome = "created"
        /\ IdOf(h).kind = "string") =>
          LET n == IdOf(h).val
              m == [identity_name |-> n, user_pubkey |-> h,
                    membership_type |-> "ADMIN"]
              before == {u \in user : u.sender = h}
              after == {u \in user' : u.sender = h}
          IN /\ ~HasName(identity, n)
             /\ identity' \ identity = {i \in identity' : i.name = n}
             /\ identity \subseteq identity'
             /\ \A i \in identity' : i.name = n => i.enabled
             /\ Cardinality({i \in identity' : i.name = n}) = 1
             /\ user_identity' = user_identity \cup {m}
             /\ MembersOf(user_identity', n) = {m}
             /\ {u \in user' : u.sender # h} = {u \in user : u.sender # h}
             /\ Cardinality(after) = 1
             /\ \A u \in after :
                  IF \E b \in before : b.primary_identity_name # NullName
                  THEN u \in before
                  ELSE u.primary_identity_name = n]_vars

\* A sender whose primary identity is ab has created c_1 and still has ab as
\* primary identity, next to the user row of another sender.
C12_Witness ==
  \E h \in Senders :
    /\ inv[h].pc = "done"
    /\ inv[h].outcome = "created"
    /\ IdOf(h) = Str(n_c1)
    /\ [sender |-> h, primary_identity_name |-> n_ab] \in user
    /\ IsAdminRow(user_identity, n_c1, h)
    /\ \E u \in user : u.sender # h

IdSpellings == {<<"i", "d">>, <<"I", "d">>, <<"i", "D">>, <<"I", "D">>}

\* C13: an invocation whose command does not begin, in any letter case, with
\* the word id followed by a space ends unhandled without parsing the
\* command, without a query and without a change of the store; a command that
\* begins with id, Id, iD or ID and a space is handed to the parser.
C13_PrefixGate ==
  [][\A h \in Senders :
       (inv[h].pc \in {"idle", "done"} /\ inv'[h] # inv[h]) =>
          LET command == inv'[h].command
          IN IF Len(command) >= 2 /\ command[1] \in IdSpellings
             THEN inv'[h].parsed
             ELSE /\ inv'[h].pc = "done"
                  /\ inv'[h].outcome = "unhandled"
                  /\ ~inv'[h].parsed
                  /\ inv'[h].reads = 0
                  /\ inv'[h].handler = ""
                  /\ store' = store]_vars

\* One sender's "hi ab" ended unhandled and unparsed on a store that holds
\* ab, another sender's "ID ab" was parsed.
C13_Witness ==
  \E a, b \in Senders :
    /\ inv[a].command = <<kw_hi, n_ab>>
    /\ inv[a].pc = "done" /\ inv[a].outcome = "unhandled"
    /\ ~inv[a].parsed /\ inv[a].reads = 0
    /\ inv[b].command = <<kw_ID, n_ab>>
    /\ inv[b].parsed
    /\ HasName(identity, n_ab)

\* C14: whenever modifyIdentity, called for sender h, changes the store, h
\* holds an ADMIN membership row of the identity in the store the change is
\* applied to; an invocation whose sender was demoted or removed after its
\* resolution changes nothing.
C14_AdminWhenApplied ==
  [][\A h \in Senders :
       (/\ inv[h].pc = "apply"
        /\ inv'[h].handler = "modifyIdentity"
        /\ store' # store) =>
          IsAdminRow(user_identity, inv[h].status.identityName, h)]_vars

\* C15: an invocation with a valid name always gets a resolved status and then
\* calls exactly one handler, determined by the status alone: createIdentity
\* for AVAILABLE, alreadyTaken for TAKEN, modifyIdentity for ADMIN and MEMBER;
\* the TAKEN branch reports already-taken and leaves the store as it was.
C15_RoutedByStatus ==
  [][\A h \in Senders :
       (inv'[h] # inv[h] /\ IdOf(h).kind = "string") =>
          /\ inv[h].pc = "resolve" =>
                inv'[h].pc = "apply" /\ inv'[h].handler = ""
          /\ inv[h].pc = "apply" =>
                /\ inv'[h].pc = "done"
                /\ inv[h].handler = ""
                /\ inv'[h].handler =
                     CASE inv[h].status.status = "AVAILABLE" -> "createIdentity"
                       [] inv[h].status.status = "TAKEN" -> "alreadyTaken"
                       [] inv[h].status.status \in {"ADMIN", "MEMBER"} -> "modifyIdentity"
                /\ inv[h].status.status = "TAKEN" =>
                      inv'[h].outcome = "alreadyTaken" /\ store' = store]_vars

\* One sender created ab through createIdentity, another resolved TAKEN and
\* got the already-taken outcome from alreadyTaken.
C15_Witness ==
  \E a, b \in Senders :
    /\ inv[a].pc = "done" /\ inv[a].status.status = "AVAILABLE"
    /\ inv[a].handler = "createIdentity" /\ inv[a].outcome = "created"
    /\ inv[b].pc = "done" /\ inv[b].status.status = "TAKEN"
    /\ inv[b].handler = "alreadyTaken" /\ inv[b].outcome = "alreadyTaken"
    /\ IdOf(a) = Str(n_ab) /\ IdOf(b) = Str(n_ab)

\* C16: a resolution step leaves the identity, user_identity and user tables
\* exactly as they were, whatever they hold and whoever asks, and it issues
\* one query, the only one of the invocation.
C16_ResolverReadsOnce ==
  [][\A h \in Senders :
       (inv[h].pc = "resolve" /\ inv'[h] # inv[h]) =>
          /\ identity' = identity
          /\ user_identity' = user_identity
          /\ user' = user
          /\ inv[h].reads = 0
          /\ inv'[h].reads = 1]_vars

\* A sender without a user row has resolved, against an identity with a
\* member, and the tables still hold no user row of that sender.
C16_Witness ==
  \E h \in Senders :
    /\ inv[h].pc = "apply"
    /\ inv[h].reads = 1
    /\ inv[h].status = Taken
    /\ ~\E u \in user : u.sender = h
    /\ user_identity # {}

\* C17: a resolution that answers EXISTING reports the role ADMIN exactly when
\* the membership_type of the caller's membership row is ADMIN, and the role
\* MEMBER for every other membership_type.
C17_RoleFromMembershipType ==
  \A h \in Senders :
    (inv[h].pc = "apply" /\ inv[h].status.status \notin {"AVAILABLE", "TAKEN"}) =>
       /\ RowsOf(user_identity, IdOf(h).val, h) # {}
       /\ \A m \in RowsOf(user_identity, IdOf(h).val, h) :
            inv[h].status.status =
              IF m.membership_type = "ADMIN" THEN "ADMIN" ELSE "MEMBER"

\* One caller with the membership type GUEST resolved to MEMBER, the other
\* with the membership type ADMIN resolved to ADMIN.
C17_Witness ==
  \E a, b \in Senders :
    /\ inv[a].pc = "apply" /\ inv[a].status.status = "MEMBER"
    /\ [identity_name |-> n_ab, user_pubkey |-> a, membership_type |-> "GUEST"]
         \in user_identity
    /\ inv[b].pc = "apply" /\ inv[b].status.status = "ADMIN"
    /\ IsAdminRow(user_identity, n_ab, b)

C19_ExistingFieldsAreCallersOwn ==
  \A h \in Senders :
    (inv[h].pc = "apply" /\ inv[h].status.status \notin {"AVAILABLE", "TAKEN"}) =>
       LET st == inv[h].status
           n == IdOf(h).val
       IN /\ st.identityName = n
          /\ st.sender = h
          /\ \E i \in identity : i.name = n /\ i.enabled = st.enabled
          /\ \E m \in RowsOf(user_identity, n, h) :
               m.membership_type = st.membershipType
          /\ \E u \in user :
               u.sender = h /\ u.primary_identity_name = st.primaryIdentityName

\* The caller resolved to EXISTING on an identity whose other member has
\* another membership type and another primary identity.
C19_Witness ==
  \E h \in Senders :
    /\ inv[h].pc = "apply"
    /\ inv[h].status.status \in {"ADMIN", "MEMBER"}
    /\ inv[h].status.sender = h
    /\ \E m \in MembersOf(user_identity, n_ab) :
         m.user_pubkey # h /\ m.membership_type # inv[h].status.membershipType
    /\ \E u \in user :
         u.sender # h /\ u.primary_identity_name # inv[h].status.primaryIdentityName

\* C20: on any one content of the tables, the resolution of a name for a
\* sender has a single possible status, whichever row of the join the query
\* returns first.
C20_ResolutionDeterministic ==
  \A n \in ValidNames, x \in Senders :
    \A st1, st2 \in Resolve(identity, user_identity, user, n, x) :
      st1.status = st2.status

====
